---------------------------- MODULE Spec2Model ----------------------------
(***************************************************************************)
(* Model of the GEOIP command center: the client SDK's rule evaluator and  *)
(* its poll-and-check cycles on a page (src/public/sdk.js), and the        *)
(* server's configuration store and admin API (src/server.js).             *)
(*                                                                         *)
(* JavaScript values are represented as follows.                           *)
(*   - an object is a function whose DOMAIN is the set of its keys; a key  *)
(*     that is absent reads as undefined (Has tests presence);             *)
(*   - null/undefined in a variable is the value Null;                     *)
(*   - an array is a sequence;                                             *)
(*   - a host name or domain is a sequence of one-character strings, so    *)
(*     that String.includes is a real substring test;                      *)
(*   - IP addresses, countries and passwords are strings that the code     *)
(*     only compares for equality;                                         *)
(*   - a bot score or minScore is a number of tenths (0.7 is 7).           *)
(***************************************************************************)
EXTENDS Integers, Sequences, FiniteSets, Bags, TLC

VARIABLES
    \* ---- client SDK (src/public/sdk.js) ----
    input,      \* the facts of one evaluation: config, hostname, ip, country, bot
    result,     \* what evaluateRules returned, Null before it has run
    \* ---- the SDK running on a page (src/public/sdk.js) ----
    sdkVersion,       \* SDK_VERSION of the copy that is loaded: "3.3" or "3.1"
    href,             \* window.location.href of the page, as pieces
    config,           \* the SDK's module variable config, Null before a poll succeeded
    localStorage,     \* the configuration cached under SDK_CONFIG_KEY, Null when none
    isTrafficAllowed, \* the flag behind GeoIPControlSDK.isTrafficAllowed()
    pollInterval,     \* the interval timer: {} before setInterval, else {ms until it fires}
    initAge,          \* ms the cycle started by init() has lasted, counted up to
                      \* CONFIG_POLL_INTERVAL; 0 once that cycle is over
    tasks,            \* async calls suspended at an await, a bag of
                      \* [by, pc, ip, country, denied, late]
    blockedPage,      \* the error code of the blocked page on display, "" when none
    preloader,        \* showPreloader has run
    safeTimers,       \* armed redirects to https://example.com: the ms each has left
    finalTimers,      \* armed redirects to config.finalUrl: the ms each has left
    navigatedTo,      \* where the page went, "" while it is still loaded
    did,              \* the SDK step just taken and what it produced
    \* ---- server (src/server.js) ----
    appConfig,  \* app.locals.config, Null before the first load
    file,       \* the content of config.json, Null when the file does not exist
    env,        \* process.env.ADMIN_PASSWORD, "" when unset
    now,        \* the clock read by new Date()
    listening,  \* the listen callback has run
    loads,      \* loadConfig calls awaiting fs.readFile
    pending,    \* fs.writeFile calls in flight, a bag of [content, by]
    last,       \* the step just taken: its request and the response it sent
    lastWrite,  \* body of the latest admin write while its configuration is
                \* still the one in memory, Null otherwise
    \* ---- middleware chain in front of the routes (src/server.js) ----
    version,    \* which of the three server versions of src/server.js runs
    hits,       \* the rate limiter's count for the client in the current window
    exchange    \* the request just received and how the chain answered it

pageVars ==
    <<sdkVersion, href, config, localStorage, isTrafficAllowed, pollInterval, initAge, tasks,
      blockedPage, preloader, safeTimers, finalTimers, navigatedTo, did>>

sdkVars == <<input, result, pageVars>>

serverVars == <<appConfig, file, env, now, listening, loads, pending, last, lastWrite>>

httpVars == <<version, hits, exchange>>

vars == <<sdkVars, serverVars, httpVars>>

----------------------------------------------------------------------------
(* Generic JavaScript helpers *)

Null == [null |-> TRUE]

EmptyObj == [k \in {} |-> TRUE]

Has(obj, k) == k \in DOMAIN obj

\* obj.k in a boolean context, for a key that holds a boolean when present
IsTrue(obj, k) == Has(obj, k) /\ obj[k] = TRUE

\* Array.prototype.includes
ArrIncludes(arr, x) == \E i \in 1..Len(arr) : arr[i] = x

\* String.prototype.includes: sub occurs in str as a contiguous substring
StrIncludes(str, sub) ==
    \E i \in 0..(Len(str) - Len(sub)) : SubSeq(str, i + 1, i + Len(sub)) = sub

\* obj.k?.length in a boolean context
NonEmptyArr(obj, k) == Has(obj, k) /\ Len(obj[k]) > 0

----------------------------------------------------------------------------
(* The rule evaluator: src/public/sdk.js *)

ERROR_CODES ==
    [c \in {"ERR-BOT-HIGH", "ERR-COUNTRY-BLOCK", "ERR-IP-BLACKLIST",
            "ERR-ISP-SCRAPER", "ERR-ASN-DATACENTER", "ERR-TRAFFIC-SUSPICIOUS",
            "ERR-UA-BOT", "ERR-IP-ABUSER", "ERR-DOMAIN-BLOCKED",
            "ERR-RATE-LIMIT", "ERR-CONFIG-LOAD", "ERR-BOT-DETECT",
            "ERR-GEOIP", "ERR-UNKNOWN"} |->
        CASE c = "ERR-BOT-HIGH"           -> "Bot score exceeded threshold"
          [] c = "ERR-COUNTRY-BLOCK"      -> "Country is in blocked list"
          [] c = "ERR-IP-BLACKLIST"       -> "IP address is blacklisted"
          [] c = "ERR-ISP-SCRAPER"        -> "ISP identified as scraper service"
          [] c = "ERR-ASN-DATACENTER"     -> "Data center ASN detected"
          [] c = "ERR-TRAFFIC-SUSPICIOUS" -> "Suspicious traffic pattern"
          [] c = "ERR-UA-BOT"             -> "Bot User-Agent detected"
          [] c = "ERR-IP-ABUSER"          -> "IP flagged for abuse"
          [] c = "ERR-DOMAIN-BLOCKED"     -> "Domain not in whitelist"
          [] c = "ERR-RATE-LIMIT"         -> "Too many requests"
          [] c = "ERR-CONFIG-LOAD"        -> "Failed to load configuration"
          [] c = "ERR-BOT-DETECT"         -> "Bot detection API error"
          [] c = "ERR-GEOIP"              -> "GeoIP lookup failed"
          [] c = "ERR-UNKNOWN"            -> "Unknown security violation"]

\* the literal 0.7 of getErrorCode, in tenths
DefaultMinScore == 7

\* { blocked: true, code, reason: ERROR_CODES[code] }
Blocked(code) == [blocked |-> TRUE, code |-> code, reason |-> ERROR_CODES[code]]

\* { blocked: false }
NotBlocked == [blocked |-> FALSE]

\* config.blockingCriteria || {}
Criteria(cfg) ==
    IF Has(cfg, "blockingCriteria") THEN cfg["blockingCriteria"] ELSE EmptyObj

\* botResult.details || {}   (and botResult.details?.flag)
Details(bot) == IF Has(bot, "details") THEN bot["details"] ELSE EmptyObj

\* !config.allowAllDomains && config.allowedDomains?.length &&
\* !config.allowedDomains.some(d => currentDomain.includes(d))
DomainBlocked(cfg, hostname) ==
    /\ ~IsTrue(cfg, "allowAllDomains")
    /\ NonEmptyArr(cfg, "allowedDomains")
    /\ ~\E i \in 1..Len(cfg["allowedDomains"]) :
            StrIncludes(hostname, cfg["allowedDomains"][i])

\* config.ipBlacklist?.includes(ip)
IpBlacklisted(cfg, ip) ==
    Has(cfg, "ipBlacklist") /\ ArrIncludes(cfg["ipBlacklist"], ip)

\* config.blockedCountries?.includes(country)
CountryBlocked(cfg, country) ==
    Has(cfg, "blockedCountries") /\ ArrIncludes(cfg["blockedCountries"], country)

\* CountryNotAllowed with the negation of includes() lost
CountryNotAllowed_Inverted(cfg, country) ==
    /\ NonEmptyArr(cfg, "allowedCountries")
    /\ ArrIncludes(cfg["allowedCountries"], country)

\* config.allowedCountries?.length && !config.allowedCountries.includes(country)
CountryNotAllowed(cfg, country) ==
    /\ NonEmptyArr(cfg, "allowedCountries")
    /\ ~ArrIncludes(cfg["allowedCountries"], country)

\* botResult.score >= criteria.minScore: false when either side is undefined
ScoreTriggered(criteria, bot) ==
    /\ Has(bot, "score")
    /\ Has(criteria, "minScore")
    /\ bot["score"] >= criteria["minScore"]

\* criteria.minScore || 0.7: an absent minScore and the falsy 0 both give 0.7
MinScoreOrDefault(criteria) ==
    IF Has(criteria, "minScore") /\ criteria["minScore"] # 0
    THEN criteria["minScore"]
    ELSE DefaultMinScore

\* the triggered[] list of evaluateRules, in push order
Triggered(cfg, bot) ==
    LET criteria == Criteria(cfg)
        details  == Details(bot)
        Push(cond, type) == IF cond THEN <<type>> ELSE <<>>
    IN  Push(ScoreTriggered(criteria, bot), "score")
        \o Push(IsTrue(criteria, "blockBotUA") /\ IsTrue(details, "isBotUserAgent"), "botUA")
        \o Push(IsTrue(criteria, "blockScraperISP") /\ IsTrue(details, "isScraperISP"), "scraperISP")
        \o Push(IsTrue(criteria, "blockIPAbuser") /\ IsTrue(details, "isIPAbuser"), "ipAbuser")
        \o Push(IsTrue(criteria, "blockSuspiciousTraffic") /\ IsTrue(details, "isSuspiciousTraffic"), "traffic")
        \o Push(IsTrue(criteria, "blockDataCenterASN") /\ IsTrue(details, "isDataCenterASN"), "dataCenter")

\* getErrorCode without its first three lines: the bot criteria only
getErrorCode_BotCriteriaOnly(cfg, bot, country, ip) ==
    LET criteria == Criteria(cfg)
        details  == Details(bot)
    IN  IF IsTrue(criteria, "blockBotUA") /\ IsTrue(details, "isBotUserAgent")
             THEN "ERR-UA-BOT"
        ELSE IF IsTrue(criteria, "blockScraperISP") /\ IsTrue(details, "isScraperISP")
             THEN "ERR-ISP-SCRAPER"
        ELSE IF IsTrue(criteria, "blockIPAbuser") /\ IsTrue(details, "isIPAbuser")
             THEN "ERR-IP-ABUSER"
        ELSE IF IsTrue(criteria, "blockSuspiciousTraffic") /\ IsTrue(details, "isSuspiciousTraffic")
             THEN "ERR-TRAFFIC-SUSPICIOUS"
        ELSE IF IsTrue(criteria, "blockDataCenterASN") /\ IsTrue(details, "isDataCenterASN")
             THEN "ERR-ASN-DATACENTER"
        ELSE IF Has(bot, "score") /\ bot["score"] >= MinScoreOrDefault(criteria)
             THEN "ERR-BOT-HIGH"
        ELSE "ERR-UNKNOWN"

getErrorCode(cfg, bot, country, ip) ==
    LET criteria == Criteria(cfg)
        details  == Details(bot)
    IN  IF IpBlacklisted(cfg, ip) THEN "ERR-IP-BLACKLIST"
        ELSE IF CountryBlocked(cfg, country) THEN "ERR-COUNTRY-BLOCK"
        ELSE IF CountryNotAllowed(cfg, country) THEN "ERR-COUNTRY-BLOCK"
        ELSE IF IsTrue(criteria, "blockBotUA") /\ IsTrue(details, "isBotUserAgent")
             THEN "ERR-UA-BOT"
        ELSE IF IsTrue(criteria, "blockScraperISP") /\ IsTrue(details, "isScraperISP")
             THEN "ERR-ISP-SCRAPER"
        ELSE IF IsTrue(criteria, "blockIPAbuser") /\ IsTrue(details, "isIPAbuser")
             THEN "ERR-IP-ABUSER"
        ELSE IF IsTrue(criteria, "blockSuspiciousTraffic") /\ IsTrue(details, "isSuspiciousTraffic")
             THEN "ERR-TRAFFIC-SUSPICIOUS"
        ELSE IF IsTrue(criteria, "blockDataCenterASN") /\ IsTrue(details, "isDataCenterASN")
             THEN "ERR-ASN-DATACENTER"
        ELSE IF Has(bot, "score") /\ bot["score"] >= MinScoreOrDefault(criteria)
             THEN "ERR-BOT-HIGH"
        ELSE "ERR-UNKNOWN"

\* RulesBeforeBot with the IP blacklist tested before the domain gate
RulesBeforeBot_IpFirst(cfg, hostname, ip, country) ==
    IF IpBlacklisted(cfg, ip) THEN "ERR-IP-BLACKLIST"
    ELSE IF DomainBlocked(cfg, hostname) THEN "ERR-DOMAIN-BLOCKED"
    ELSE IF CountryBlocked(cfg, country) THEN "ERR-COUNTRY-BLOCK"
    ELSE IF CountryNotAllowed(cfg, country) THEN "ERR-COUNTRY-BLOCK"
    ELSE "pass"

\* RulesBeforeBot with the country rules tested before the IP blacklist
RulesBeforeBot_CountryBeforeIp(cfg, hostname, ip, country) ==
    IF DomainBlocked(cfg, hostname) THEN "ERR-DOMAIN-BLOCKED"
    ELSE IF CountryBlocked(cfg, country) THEN "ERR-COUNTRY-BLOCK"
    ELSE IF CountryNotAllowed(cfg, country) THEN "ERR-COUNTRY-BLOCK"
    ELSE IF IpBlacklisted(cfg, ip) THEN "ERR-IP-BLACKLIST"
    ELSE "pass"

\* the four rules evaluateRules decides before bot detection, in code order:
\* the code of the first that matches, or "pass"
RulesBeforeBot(cfg, hostname, ip, country) ==
    IF DomainBlocked(cfg, hostname) THEN "ERR-DOMAIN-BLOCKED"
    ELSE IF IpBlacklisted(cfg, ip) THEN "ERR-IP-BLACKLIST"
    ELSE IF CountryBlocked(cfg, country) THEN "ERR-COUNTRY-BLOCK"
    ELSE IF CountryNotAllowed(cfg, country) THEN "ERR-COUNTRY-BLOCK"
    ELSE "pass"

\* the body of `if (config.botDetectionEnabled) { ... }` after the bot result
\* has arrived, and the final `return { blocked: false }`
BotBranch(cfg, bot, country, ip) ==
    IF Len(Triggered(cfg, bot)) > 0
    THEN Blocked(getErrorCode(cfg, bot, country, ip))
    ELSE NotBlocked

\* evaluateRules with the configuration unchanged while it runs
evaluateRules(cfg, hostname, ip, country, bot) ==
    IF cfg = Null THEN NotBlocked
    ELSE LET gate == RulesBeforeBot(cfg, hostname, ip, country)
         IN  IF gate # "pass" THEN Blocked(gate)
             ELSE IF IsTrue(cfg, "botDetectionEnabled")
                  THEN BotBranch(cfg, bot, country, ip)
                  ELSE NotBlocked

----------------------------------------------------------------------------
(* Inputs of the evaluator: bounded sets of configurations, requests and   *)
(* bot-detection answers.                                                  *)

\* window.location.hostname: "a", "b.a", "ab"
Hostnames == { <<"a">>, <<"b", ".", "a">>, <<"a", "b">> }

\* config.allowedDomains: [], ["b.a"], ["c", "b"], ["c"]
AllowedDomainLists ==
    { <<>>, << <<"b", ".", "a">> >>, << <<"c">>, <<"b">> >>, << <<"c">> >> }

\* what getIP returns; "127.0.0.1" is its value when the lookup fails
IPs == { "192.168.1.1", "10.0.0.2", "127.0.0.1" }

IpBlacklists == { <<>>, <<"10.0.0.9", "192.168.1.1">> }

\* what checkGeoIP returns; "Unknown" is its value when the lookup fails
Countries == { "Iran", "France", "Unknown" }

BlockedCountryLists == { <<>>, <<"North Korea", "Iran", "Russia">> }

AllowedCountryLists == { <<>>, <<"Iran">>, <<"Germany", "France">> }

CriteriaFlagKeys ==
    { "blockBotUA", "blockScraperISP", "blockIPAbuser",
      "blockSuspiciousTraffic", "blockDataCenterASN" }

DetailKeys ==
    { "isBotUserAgent", "isScraperISP", "isIPAbuser",
      "isSuspiciousTraffic", "isDataCenterASN" }

\* configured minScore values, in tenths
MinScores == { 0, 5, 7, 9 }

\* bot scores, in tenths
Scores == { 0, 3, 6, 7, 9 }

\* obj with key k set to v
With(obj, k, v) == [x \in DOMAIN obj \cup {k} |-> IF x = k THEN v ELSE obj[x]]

\* blockingCriteria objects: every combination of the five flags, with each
\* configured minScore and without minScore
AllCriteria ==
    LET flags == [CriteriaFlagKeys -> BOOLEAN]
    IN  flags \cup { With(f, "minScore", m) : f \in flags, m \in MinScores }

\* blockingCriteria of the server's hardcoded default configuration
DefaultCriteria ==
    [minScore |-> DefaultMinScore, blockBotUA |-> TRUE, blockScraperISP |-> TRUE,
     blockIPAbuser |-> TRUE, blockSuspiciousTraffic |-> FALSE,
     blockDataCenterASN |-> TRUE]

\* the catch branch of checkBotDetection
BotFallback == [is_bot |-> FALSE, score |-> 0, details |-> EmptyObj]

\* the server's answer when its upstream call failed: no score, no details
BotErrorBody == [error |-> "ERR-BOT-DETECT"]

\* answers of the bot detector: every combination of the five flags with each score
AllBotResults ==
    { [score |-> s, details |-> d] : s \in Scores, d \in [DetailKeys -> BOOLEAN] }
    \cup { BotFallback, BotErrorBody }

GateBotResults ==
    { [score |-> 0, details |-> [k \in DetailKeys |-> FALSE]],
      [score |-> 9, details |-> [k \in DetailKeys |-> TRUE]],
      BotErrorBody }

\* a configuration as GET /api/config serves it
MkConfig(aad, ad, bl, bc, ac, bde, crit) ==
    [botDetectionEnabled |-> bde, blockingCriteria |-> crit,
     allowedCountries |-> ac, blockedCountries |-> bc, ipBlacklist |-> bl,
     finalUrl |-> "https://msod.skope.net.au", theme |-> "default",
     allowedDomains |-> ad, allowAllDomains |-> aad, lastUpdated |-> 0]

MkInput(cfg, hostname, ip, country, bot) ==
    [config |-> cfg, hostname |-> hostname, ip |-> ip, country |-> country, bot |-> bot]

\* every combination of the domain, IP and country settings and facts
GateInputs ==
    { MkInput(MkConfig(aad, ad, bl, bc, ac, bde, DefaultCriteria), h, ip, c, b) :
        aad \in BOOLEAN, ad \in AllowedDomainLists, bl \in IpBlacklists,
        bc \in BlockedCountryLists, ac \in AllowedCountryLists, bde \in BOOLEAN,
        h \in Hostnames, ip \in IPs, c \in Countries, b \in GateBotResults }

\* every combination of criteria and bot answers, for a request that passes
\* non-empty domain, IP and country lists
BotInputs ==
    { MkInput(MkConfig(FALSE, << <<"b", ".", "a">> >>, <<"10.0.0.9", "192.168.1.1">>,
                       <<"North Korea", "Iran", "Russia">>, <<"Germany", "France">>,
                       TRUE, crit),
              <<"b", ".", "a">>, "127.0.0.1", "France", b) :
        crit \in AllCriteria, b \in AllBotResults }

\* configurations with absent fields, and no configuration at all
SparseConfigs ==
    { Null, EmptyObj, [botDetectionEnabled |-> TRUE],
      [botDetectionEnabled |-> TRUE, ipBlacklist |-> <<"192.168.1.1">>],
      [allowedDomains |-> << <<"c">> >>, botDetectionEnabled |-> TRUE,
       blockingCriteria |-> DefaultCriteria] }

SparseInputs ==
    { MkInput(cfg, h, ip, c, b) :
        cfg \in SparseConfigs, h \in Hostnames, ip \in IPs, c \in Countries,
        b \in GateBotResults }

EvalInputs == GateInputs \cup BotInputs \cup SparseInputs

----------------------------------------------------------------------------
(* The configuration store and the admin API: src/server.js *)

\* bound of the clock
MaxTime == 1

\* bound on concurrent loadConfig calls
MaxLoads == 2

\* bound on concurrent fs.writeFile calls
MaxPending == 1

\* the fallback literal of getAdminPassword
FallbackPassword == "cyberpunk2024"

\* process.env.ADMIN_PASSWORD || 'cyberpunk2024'
getAdminPassword == IF env # "" THEN env ELSE FallbackPassword

\* the keys GET /api/config copies into its response
PublicKeys ==
    { "botDetectionEnabled", "blockingCriteria", "allowedCountries",
      "blockedCountries", "ipBlacklist", "finalUrl", "theme", "allowedDomains",
      "allowAllDomains", "lastUpdated" }

\* obj without key k
Without(obj, k) == [x \in DOMAIN obj \ {k} |-> obj[x]]

\* defaultConfig of loadConfig, stamped at time t
DefaultConfig(t) ==
    [adminPassword |-> getAdminPassword,
     finalUrl |-> "https://msod.skope.net.au",
     botDetectionEnabled |-> TRUE,
     blockingCriteria |-> DefaultCriteria,
     allowedDomains |-> <<>>,
     allowAllDomains |-> FALSE,
     allowedCountries |-> <<>>,
     blockedCountries |-> <<"North Korea", "Iran", "Russia">>,
     ipBlacklist |-> <<"192.168.1.1">>,
     theme |-> "default",
     lastUpdated |-> t]

\* a loadConfig that keeps the password stored in config.json
LoadedConfig_KeepFilePassword(fileConfig) == fileConfig

\* { ...fileConfig, adminPassword: getAdminPassword() }
LoadedConfig(fileConfig) == With(fileConfig, "adminPassword", getAdminPassword)

\* a GET /api/config that returns the configuration as it is in memory
PublicProjection_WholeConfig(cfg) == cfg

\* the object GET /api/config passes to res.json; JSON drops the keys whose
\* value is undefined
PublicProjection(cfg) == [k \in PublicKeys \cap DOMAIN cfg |-> cfg[k]]

\* newConfig.adminPassword || oldConfig.adminPassword: an absent password and
\* the falsy "" both keep the old one
PasswordAfterWrite(body, oldConfig) ==
    IF Has(body, "adminPassword") /\ body["adminPassword"] # ""
    THEN body["adminPassword"]
    ELSE oldConfig["adminPassword"]

\* an admin write that appends the body's ipBlacklist to the one in memory
WrittenConfig_AppendBlacklist(body, oldConfig, t) ==
    LET written == With(With(body, "adminPassword", PasswordAfterWrite(body, oldConfig)),
                        "lastUpdated", t)
    IN  IF Has(body, "ipBlacklist") /\ Has(oldConfig, "ipBlacklist")
        THEN With(written, "ipBlacklist", oldConfig["ipBlacklist"] \o body["ipBlacklist"])
        ELSE written

\* an admin write that lays the body over the configuration in memory
WrittenConfig_MergeOld(body, oldConfig, t) ==
    With(With([k \in DOMAIN oldConfig \cup DOMAIN body |->
                   IF k \in DOMAIN body THEN body[k] ELSE oldConfig[k]],
              "adminPassword", PasswordAfterWrite(body, oldConfig)),
         "lastUpdated", t)

\* an admin write that publishes the body before saveConfig has stamped it;
\* the lastUpdated not yet set reads as a time before the clock's start
WrittenConfig_Unstamped(body, oldConfig, t) ==
    With(With(body, "adminPassword", PasswordAfterWrite(body, oldConfig)),
         "lastUpdated", 0 - 1)

\* the configuration POST /api/admin/config installs: the request body with
\* adminPassword resolved and lastUpdated stamped by saveConfig
WrittenConfig(body, oldConfig, t) ==
    With(With(body, "adminPassword", PasswordAfterWrite(body, oldConfig)),
         "lastUpdated", t)

\* String.prototype.startsWith on a string held as a sequence of pieces
StartsWith(str, prefix) ==
    /\ Len(str) >= Len(prefix)
    /\ SubSeq(str, 1, Len(prefix)) = prefix

\* an authorization test that accepts any header that is present
IsBearer_AnyScheme(auth) == auth # <<>>

\* an authorization test that accepts only a token of the shape login issues
IsBearer_IssuedShape(auth) ==
    /\ StartsWith(auth, <<"Bearer", " ">>)
    /\ Len(auth) = 3
    /\ auth[3] = "admin-session"

\* authHeader?.startsWith('Bearer '); an absent header is the empty sequence
IsBearer(auth) == StartsWith(auth, <<"Bearer", " ">>)

\* password === config.adminPassword
LoginOk(body, cfg) ==
    /\ Has(body, "password")
    /\ Has(cfg, "adminPassword")
    /\ body["password"] = cfg["adminPassword"]

----------------------------------------------------------------------------
(* Requests the server receives *)

\* a full configuration as the admin panel would send it
ContentA ==
    [finalUrl |-> "https://msod.skope.net.au", botDetectionEnabled |-> FALSE,
     blockingCriteria |-> DefaultCriteria, allowedDomains |-> <<>>,
     allowAllDomains |-> TRUE, allowedCountries |-> <<>>,
     blockedCountries |-> <<>>, ipBlacklist |-> <<"10.0.0.9">>,
     theme |-> "matrix"]

\* another full configuration, carrying a key the server does not know
ContentB ==
    [finalUrl |-> "https://other.example", botDetectionEnabled |-> TRUE,
     blockingCriteria |-> [minScore |-> 5, blockBotUA |-> TRUE],
     allowedDomains |-> << <<"b", ".", "a">> >>, allowAllDomains |-> FALSE,
     allowedCountries |-> <<"Germany", "France">>, blockedCountries |-> <<"Iran">>,
     ipBlacklist |-> <<>>, theme |-> "neon", internalNote |-> "secret"]

\* a lastUpdated value chosen by the client
ClientStamp == 0 - 1

\* request bodies of POST /api/admin/config: with no adminPassword, with an
\* empty one, and with a new one, an unknown key and a lastUpdated of the
\* client's choosing
AdminBodies ==
    { ContentA,
      With(ContentA, "adminPassword", ""),
      With(With(ContentB, "adminPassword", "pw-new"), "lastUpdated", ClientStamp) }

\* Authorization headers: none, a bearer token nobody issued, the word Bearer
\* and a space with no token, another scheme
AuthHeaders ==
    { <<>>, <<"Bearer", " ", "x">>, <<"Bearer", " ">>, <<"Basic", " ", "abc">> }

\* request bodies of POST /api/admin/login
LoginBodies ==
    { EmptyObj } \cup
    { [password |-> p] : p \in { FallbackPassword, "env-secret", "pw-new" } }

\* a config.json left by an earlier run of the server
OldFile ==
    With(With(ContentA, "adminPassword", "pw-old"), "lastUpdated", 0)

NoStep == [op |-> "none"]

----------------------------------------------------------------------------
(* Server state machine *)

\* the middleware chain of the first version, no request received yet
HttpIdle ==
    /\ version = 1
    /\ hits = 0
    /\ exchange = Null

\* no page has loaded the SDK
PageIdle ==
    /\ sdkVersion = "3.3"
    /\ href = <<>>
    /\ config = Null
    /\ localStorage = Null
    /\ isTrafficAllowed = FALSE
    /\ pollInterval = {}
    /\ initAge = 0
    /\ tasks = EmptyBag
    /\ blockedPage = ""
    /\ preloader = FALSE
    /\ safeTimers = {}
    /\ finalTimers = {}
    /\ navigatedTo = ""
    /\ did = NoStep

ServerIdle ==
    /\ appConfig = Null
    /\ file = Null
    /\ env = ""
    /\ now = 0
    /\ listening = FALSE
    /\ loads = 0
    /\ pending = EmptyBag
    /\ last = NoStep
    /\ lastWrite = Null

Init ==
    /\ input = Null
    /\ result = Null
    /\ appConfig = Null
    /\ file \in { Null, OldFile }
    /\ env \in { "", "env-secret" }
    /\ now = 0
    /\ listening = FALSE
    /\ loads = 0
    /\ pending = EmptyBag
    /\ last = NoStep
    /\ lastWrite = Null
    /\ HttpIdle
    /\ PageIdle

\* app.listen callback: await loadConfig()
Listen ==
    /\ ~listening
    /\ listening' = TRUE
    /\ loads' = loads + 1
    /\ last' = NoStep
    /\ UNCHANGED <<appConfig, file, env, now, pending, lastWrite, sdkVars, httpVars>>

\* the first middleware: if (!req.app.locals.config) await loadConfig()
MiddlewareLoad ==
    /\ listening
    /\ appConfig = Null
    /\ loads < MaxLoads
    /\ loads' = loads + 1
    /\ last' = NoStep
    /\ UNCHANGED <<appConfig, file, env, now, listening, pending, lastWrite, sdkVars, httpVars>>

\* loadConfig, try branch: the file was read and parsed
LoadConfigFromFile ==
    /\ loads > 0
    /\ file # Null
    /\ appConfig' = LoadedConfig(file)
    /\ loads' = loads - 1
    /\ last' = [op |-> "loadConfig"]
    /\ lastWrite' = Null
    /\ UNCHANGED <<file, env, now, listening, pending, sdkVars, httpVars>>

\* loadConfig, catch branch: no file; the default is installed and
\* saveConfig(defaultConfig) runs up to its await
LoadConfigDefault ==
    /\ loads > 0
    /\ file = Null
    /\ BagCardinality(pending) < MaxPending
    /\ appConfig' = DefaultConfig(now)
    /\ pending' = pending (+) SetToBag({ [content |-> DefaultConfig(now), by |-> "loadConfig"] })
    /\ loads' = loads - 1
    /\ last' = [op |-> "loadConfig"]
    /\ lastWrite' = Null
    /\ UNCHANGED <<file, env, now, listening, sdkVars, httpVars>>

\* fs.writeFile resolves; the admin handler then answers
WriteFileDone ==
    \E w \in BagToSet(pending) :
        /\ pending' = pending (-) SetToBag({w})
        /\ file' = w.content
        /\ last' = IF w.by = "admin"
                   THEN [op |-> "writeFile", status |-> 200,
                         res |-> [success |-> TRUE,
                                  lastUpdated |-> w.content["lastUpdated"]]]
                   ELSE [op |-> "writeFile"]
        /\ UNCHANGED <<appConfig, env, now, listening, loads, lastWrite, sdkVars, httpVars>>

\* a failed write that puts the configuration in memory back to the file's
WriteFileFail_Rollback ==
    \E w \in BagToSet(pending) :
        /\ pending' = pending (-) SetToBag({w})
        /\ appConfig' = IF file # Null THEN LoadedConfig(file) ELSE appConfig
        /\ last' = IF w.by = "admin"
                   THEN [op |-> "writeFile", status |-> 500,
                         res |-> [error |-> "ERR-CONFIG-SAVE"]]
                   ELSE [op |-> "writeFile"]
        /\ UNCHANGED <<file, env, now, listening, loads, lastWrite, sdkVars, httpVars>>

\* fs.writeFile rejects: loadConfig swallows it, the admin handler answers 500
WriteFileFail ==
    \E w \in BagToSet(pending) :
        /\ pending' = pending (-) SetToBag({w})
        /\ last' = IF w.by = "admin"
                   THEN [op |-> "writeFile", status |-> 500,
                         res |-> [error |-> "ERR-CONFIG-SAVE"]]
                   ELSE [op |-> "writeFile"]
        /\ UNCHANGED <<appConfig, file, env, now, listening, loads, lastWrite, sdkVars, httpVars>>

\* GET /api/config
GetConfig ==
    /\ listening
    /\ appConfig # Null
    /\ last' = [op |-> "GET /api/config", status |-> 200,
                res |-> PublicProjection(appConfig)]
    /\ UNCHANGED <<appConfig, file, env, now, listening, loads, pending, lastWrite, sdkVars, httpVars>>

\* POST /api/admin/login
AdminLogin ==
    \E body \in LoginBodies :
        /\ listening
        /\ appConfig # Null
        /\ last' = IF LoginOk(body, appConfig)
                   THEN [op |-> "POST /api/admin/login", req |-> body, status |-> 200,
                         res |-> [success |-> TRUE, token |-> now]]
                   ELSE [op |-> "POST /api/admin/login", req |-> body, status |-> 401,
                         res |-> [error |-> "ERR-INVALID-PASS"]]
        /\ UNCHANGED <<appConfig, file, env, now, listening, loads, pending, lastWrite, sdkVars, httpVars>>

\* GET /api/admin/config
AdminGetConfig ==
    \E auth \in AuthHeaders :
        /\ listening
        /\ appConfig # Null
        /\ last' = IF IsBearer(auth)
                   THEN [op |-> "GET /api/admin/config", auth |-> auth, status |-> 200,
                         res |-> appConfig]
                   ELSE [op |-> "GET /api/admin/config", auth |-> auth, status |-> 401,
                         res |-> [error |-> "ERR-NO-AUTH"]]
        /\ UNCHANGED <<appConfig, file, env, now, listening, loads, pending, lastWrite, sdkVars, httpVars>>

\* POST /api/admin/config without a bearer token
AdminPostConfigNoAuth ==
    \E auth \in AuthHeaders :
        /\ listening
        /\ appConfig # Null
        /\ ~IsBearer(auth)
        /\ last' = [op |-> "POST /api/admin/config", auth |-> auth,
                    status |-> 401, res |-> [error |-> "ERR-NO-AUTH"]]
        /\ UNCHANGED <<appConfig, file, env, now, listening, loads, pending, lastWrite, sdkVars, httpVars>>

\* POST /api/admin/config with a bearer token, up to the await in saveConfig
AdminPostConfig ==
    \E auth \in AuthHeaders, body \in AdminBodies :
        /\ listening
        /\ appConfig # Null
        /\ IsBearer(auth)
        /\ BagCardinality(pending) < MaxPending
        /\ appConfig' = WrittenConfig(body, appConfig, now)
        /\ pending' = pending (+)
               SetToBag({ [content |-> WrittenConfig(body, appConfig, now), by |-> "admin"] })
        /\ last' = [op |-> "POST /api/admin/config", auth |-> auth, req |-> body,
                    repeat |-> (lastWrite = body)]
        /\ lastWrite' = body
        /\ UNCHANGED <<file, env, now, listening, loads, sdkVars, httpVars>>

\* time passes
Tick ==
    /\ now < MaxTime
    /\ now' = now + 1
    /\ last' = NoStep
    /\ UNCHANGED <<appConfig, file, env, listening, loads, pending, lastWrite, sdkVars, httpVars>>

\* the process is stopped and started again: memory is lost, config.json stays
Restart ==
    /\ listening
    /\ appConfig' = Null
    /\ listening' = FALSE
    /\ loads' = 0
    /\ pending' = EmptyBag
    /\ last' = NoStep
    /\ lastWrite' = Null
    /\ UNCHANGED <<file, env, now, sdkVars, httpVars>>

Next ==
    \/ Listen
    \/ MiddlewareLoad
    \/ LoadConfigFromFile
    \/ LoadConfigDefault
    \/ WriteFileDone
    \/ WriteFileFail
    \/ GetConfig
    \/ AdminLogin
    \/ AdminGetConfig
    \/ AdminPostConfigNoAuth
    \/ AdminPostConfig
    \/ Tick
    \/ Restart

\* the server when nobody ever calls POST /api/admin/login
NextNoLogin ==
    \/ Listen
    \/ MiddlewareLoad
    \/ LoadConfigFromFile
    \/ LoadConfigDefault
    \/ WriteFileDone
    \/ WriteFileFail
    \/ GetConfig
    \/ AdminGetConfig
    \/ AdminPostConfigNoAuth
    \/ AdminPostConfig
    \/ Tick
    \/ Restart

SpecNoLogin == Init /\ [][NextNoLogin]_vars

\* the server when no fs.writeFile ever fails
NextNoWriteFail ==
    \/ Listen
    \/ MiddlewareLoad
    \/ LoadConfigFromFile
    \/ LoadConfigDefault
    \/ WriteFileDone
    \/ GetConfig
    \/ AdminLogin
    \/ AdminGetConfig
    \/ AdminPostConfigNoAuth
    \/ AdminPostConfig
    \/ Tick
    \/ Restart

SpecNoWriteFail == Init /\ [][NextNoWriteFail]_vars

Spec == Init /\ [][Next]_vars

----------------------------------------------------------------------------
(* The middleware chain in front of the routes, in the three server         *)
(* versions of src/server.js: origin check, static files, rate limiter      *)

\* max of rateLimit
RateLimitMax == 100

\* bound on the requests the model sends beyond the limit in one window
MaxOverLimit == 1

\* the three versions: lines 1-272, 274-532, 535-768
Versions == { 1, 2, 3 }

\* String.prototype.endsWith on a string held as a sequence of pieces
EndsWith(str, suffix) ==
    /\ Len(str) >= Len(suffix)
    /\ SubSeq(str, Len(str) - Len(suffix) + 1, Len(str)) = suffix

\* new URL(origin).hostname lower-cases the host
LowerCase(str) ==
    [i \in 1..Len(str) |-> IF str[i] = "A" THEN "a" ELSE IF str[i] = "B" THEN "b" ELSE str[i]]

\* req.get('origin'): no header, a URL, or a value new URL() rejects
NoOrigin == [absent |-> TRUE]

MalformedOrigin == [raw |-> "null"]

UrlOrigin(host, port) == [scheme |-> "https", host |-> host, port |-> port]

\* isOriginAllowed of the CORS middleware
isOriginAllowed(cfg, origin) ==
    LET allowedDomains == IF Has(cfg, "allowedDomains") THEN cfg["allowedDomains"] ELSE <<>>
        allowAllDomains == IsTrue(cfg, "allowAllDomains")
    IN  IF origin = NoOrigin THEN TRUE
        ELSE IF allowAllDomains THEN TRUE
        ELSE IF origin = MalformedOrigin THEN FALSE
        ELSE LET originHostname == LowerCase(origin.host)
             IN  \E i \in 1..Len(allowedDomains) :
                     \/ originHostname = allowedDomains[i]
                     \/ EndsWith(originHostname, <<".">> \o allowedDomains[i])

\* request paths, as the pieces of the string
SdkPath == <<"/", "sdk.js">>

ApiPrefix == <<"/", "api">>

AdminPrefix == <<"/", "api", "/", "admin">>

\* req.path inside a middleware mounted at `mount`: the mount point is cut off
PathUnderMount(path, mount) == SubSeq(path, Len(mount) + 1, Len(path))

\* app.use(mount, ...) applies to the mount path and to what lies under it
MountMatches(path, mount) ==
    /\ StartsWith(path, mount)
    /\ (Len(path) = Len(mount) \/ path[Len(mount) + 1] = "/")

Forbidden == [status |-> 403, error |-> "ERR-DOMAIN-BLOCKED"]

RateLimited == [status |-> 429, error |-> "ERR-RATE-LIMIT"]

Preflight == [status |-> 200, by |-> "preflight"]

\* the origin check of version 1 (lines 86-149): "blocked", "preflight" or "next"
CorsStageV1(cfg, req) ==
    IF req.path = SdkPath
    THEN IF isOriginAllowed(cfg, req.origin) THEN "next" ELSE "blocked"
    ELSE IF req.method = "OPTIONS" /\ StartsWith(req.path, ApiPrefix)
    THEN IF isOriginAllowed(cfg, req.origin) THEN "preflight" ELSE "blocked"
    ELSE IF StartsWith(req.path, ApiPrefix)
    THEN IF isOriginAllowed(cfg, req.origin) THEN "next" ELSE "blocked"
    ELSE "next"

\* the origin check of version 2 (lines 342-428): /sdk.js, then the
\* /api/admin bypass, then the other API paths; cors() answers a preflight
CorsStageV2(cfg, req) ==
    IF MountMatches(req.path, SdkPath)
    THEN IF isOriginAllowed(cfg, req.origin) THEN "next" ELSE "blocked"
    ELSE IF MountMatches(req.path, AdminPrefix)
    THEN IF req.method = "OPTIONS" THEN "preflight" ELSE "next"
    ELSE IF StartsWith(req.path, ApiPrefix) /\ ~StartsWith(req.path, AdminPrefix)
    THEN IF ~isOriginAllowed(cfg, req.origin) THEN "blocked"
         ELSE IF req.method = "OPTIONS" THEN "preflight" ELSE "next"
    ELSE IF req.method = "OPTIONS" THEN "preflight" ELSE "next"

\* the origin check of version 3 (lines 595-668)
CorsStageV3(cfg, req) ==
    IF MountMatches(req.path, SdkPath)
    THEN IF isOriginAllowed(cfg, req.origin) THEN "next" ELSE "blocked"
    ELSE IF StartsWith(req.path, ApiPrefix)
    THEN IF ~isOriginAllowed(cfg, req.origin) THEN "blocked"
         ELSE IF req.method = "OPTIONS" THEN "preflight" ELSE "next"
    ELSE IF req.method = "OPTIONS" THEN "preflight" ELSE "next"

CorsStage(v, cfg, req) ==
    IF v = 1 THEN CorsStageV1(cfg, req)
    ELSE IF v = 2 THEN CorsStageV2(cfg, req)
    ELSE CorsStageV3(cfg, req)

\* skip: (req) => req.path.startsWith('/api/admin'), evaluated inside the
\* limiter mounted at '/api/', where req.path no longer has the mount point
LimiterSkips(v, req) ==
    v = 2 /\ StartsWith(PathUnderMount(req.path, ApiPrefix), AdminPrefix)

\* the request reaches the limiter and is counted
LimiterCounts(v, req) == MountMatches(req.path, ApiPrefix) /\ ~LimiterSkips(v, req)

\* requests: a method, a path and an Origin header
HttpPaths ==
    { SdkPath, <<"/", "api", "/", "config">>, <<"/", "api", "/", "admin", "/", "config">>,
      <<"/", "health">> }

HttpOrigins ==
    { NoOrigin, MalformedOrigin,
      UrlOrigin(<<"b", ".", "a">>, ""), UrlOrigin(<<"x", ".", "B", ".", "a">>, "8443"),
      UrlOrigin(<<"x", "b", ".", "a">>, ""), UrlOrigin(<<"c">>, "") }

HttpRequests ==
    { [method |-> m, path |-> p, origin |-> o] :
        m \in { "GET", "OPTIONS" }, p \in HttpPaths, o \in HttpOrigins }

\* the domain settings an admin may have written
GateConfigs ==
    { With(With(ContentA, "allowAllDomains", aad), "allowedDomains", ad) :
        aad \in BOOLEAN, ad \in { <<>>, << <<"b", ".", "a">> >> } }
    \cup { Without(Without(ContentA, "allowAllDomains"), "allowedDomains") }

InitHttp ==
    /\ input = Null
    /\ result = Null
    /\ appConfig \in GateConfigs
    /\ file = Null
    /\ env = ""
    /\ now = 0
    /\ listening = TRUE
    /\ loads = 0
    /\ pending = EmptyBag
    /\ last = NoStep
    /\ lastWrite = Null
    /\ version \in Versions
    /\ hits = 0
    /\ exchange = Null
    /\ PageIdle

\* one request through the chain: origin check, static files, limiter, route
HttpRequest ==
    \E req \in HttpRequests :
        /\ hits < RateLimitMax + MaxOverLimit
        /\ LET stage == CorsStage(version, appConfig, req)
               counted == stage = "next" /\ req.path # SdkPath /\ LimiterCounts(version, req)
           IN  /\ hits' = IF counted THEN hits + 1 ELSE hits
               /\ exchange' =
                      [req |-> req,
                       answer |-> IF stage = "blocked" THEN Forbidden
                                  ELSE IF stage = "preflight" THEN Preflight
                                  ELSE IF req.path = SdkPath THEN [by |-> "static"]
                                  ELSE IF counted /\ hits + 1 > RateLimitMax THEN RateLimited
                                  ELSE [by |-> "route"]]
        /\ UNCHANGED <<version, sdkVars, serverVars>>

\* windowMs has passed: the limiter's count starts again
WindowReset ==
    /\ hits > 0
    /\ hits' = 0
    /\ exchange' = Null
    /\ UNCHANGED <<version, sdkVars, serverVars>>

NextHttp ==
    \/ HttpRequest
    \/ WindowReset

SpecHttp == InitHttp /\ [][NextHttp]_vars

----------------------------------------------------------------------------
(* The evaluator applied to one input *)

InitEval ==
    /\ input \in EvalInputs
    /\ result = Null
    /\ ServerIdle
    /\ HttpIdle
    /\ PageIdle

\* one run of evaluateRules on the input
Evaluate ==
    /\ result = Null
    /\ result' = evaluateRules(input.config, input.hostname, input.ip,
                               input.country, input.bot)
    /\ UNCHANGED <<input, pageVars, serverVars, httpVars>>

NextEval == Evaluate

SpecEval == InitEval /\ [][NextEval]_vars

Evaluated == result # Null

----------------------------------------------------------------------------
(* The evaluator fed by its three lookups: getIP, checkGeoIP and            *)
(* checkBotDetection of src/public/sdk.js                                   *)

\* a fetch that rejected, or whose body was not JSON
NetworkError == [failed |-> TRUE]

\* the value undefined where a string is expected: it equals no entry of a list
Undefined == "undefined"

\* getIP: d.ip of the answer, '127.0.0.1' when the fetch or the parse failed
getIP(fetched) ==
    IF fetched = NetworkError THEN "127.0.0.1"
    ELSE IF Has(fetched.body, "ip") THEN fetched.body["ip"] ELSE Undefined

\* checkGeoIP: data.country || 'Unknown', 'Unknown' when the fetch failed
checkGeoIP(fetched) ==
    IF fetched = NetworkError THEN "Unknown"
    ELSE IF Has(fetched.body, "country") /\ fetched.body["country"] # ""
         THEN fetched.body["country"]
         ELSE "Unknown"

\* checkBotDetection: the parsed answer as it is, the no-bot result when the
\* fetch failed
checkBotDetection(fetched) ==
    IF fetched = NetworkError THEN BotFallback ELSE fetched.body

\* answers of api.ipify.org: none, an address, an error object
IpFetches ==
    { NetworkError, [body |-> [ip |-> "10.0.0.2"]], [body |-> [ip |-> "127.0.0.1"]],
      [body |-> [error |-> "rate limited"]] }

\* answers of GET /api/geoip/:ip: none, a country, the server's own 'Unknown',
\* the server's error body
GeoFetches ==
    { NetworkError, [body |-> [country |-> "France", ip |-> "10.0.0.2"]],
      [body |-> [country |-> "Unknown", ip |-> "10.0.0.2"]],
      [body |-> [error |-> "ERR-GEOIP"]] }

\* answers of POST /api/bot-detect: none, the server's error body, a clean
\* visitor, a bot
BotFetches ==
    { NetworkError, [body |-> BotErrorBody],
      [body |-> [score |-> 0, details |-> [k \in DetailKeys |-> FALSE]]],
      [body |-> [score |-> 9, details |-> [k \in DetailKeys |-> TRUE]]] }

\* configurations whose lists name the default values of the lookups
LookupConfigs ==
    { MkConfig(TRUE, <<>>, bl, bc, ac, bde, crit) :
        bl \in { <<>>, <<"127.0.0.1">> }, bc \in { <<>>, <<"Unknown">> },
        ac \in { <<>>, <<"France">> }, bde \in BOOLEAN,
        crit \in { DefaultCriteria, With(DefaultCriteria, "minScore", 0),
                   Without(DefaultCriteria, "minScore") } }

LookupInputs ==
    { [config |-> cfg, hostname |-> <<"a">>, ipFetch |-> i, geoFetch |-> g, botFetch |-> b] :
        cfg \in LookupConfigs, i \in IpFetches, g \in GeoFetches, b \in BotFetches }

InitLookup ==
    /\ input \in LookupInputs
    /\ result = Null
    /\ ServerIdle
    /\ HttpIdle
    /\ PageIdle

\* one run of evaluateRules, lookups included
EvaluateWithLookups ==
    /\ result = Null
    /\ result' = evaluateRules(input.config, input.hostname, getIP(input.ipFetch),
                               checkGeoIP(input.geoFetch),
                               checkBotDetection(input.botFetch))
    /\ UNCHANGED <<input, pageVars, serverVars, httpVars>>

NextLookup == EvaluateWithLookups

SpecLookup == InitLookup /\ [][NextLookup]_vars

----------------------------------------------------------------------------
(* The SDK on a page: init, the periodic timer, runSecurityCheck and the    *)
(* poll-and-check cycles they start (src/public/sdk.js, versions 3.3 and    *)
(* 3.1).  Code between two awaits runs without interruption, so an action   *)
(* is the arrival of one awaited answer together with everything the code   *)
(* does up to its next await.                                               *)

\* bound on the async calls in flight on the page
MaxTasks == 2

CONFIG_POLL_INTERVAL == 30000

\* the delay of the setTimeout calls that redirect; the clock advances by it
RedirectDelay == 3000

SdkVersions == { "3.3", "3.1" }

SafeUrl == "https://example.com"

FinalUrl == "https://msod.skope.net.au"

\* window.location.href: a landing page, or the final URL, with a query string
Hrefs == { <<"https://landing.example/", "?x=1">>, <<FinalUrl, "?x=1">> }

\* window.location.hostname
PageHostname == <<"a">>

\* window.location.href.includes(config.finalUrl)
OnFinalUrl(cfg) ==
    /\ cfg # Null
    /\ Has(cfg, "finalUrl")
    /\ StrIncludes(href, <<cfg["finalUrl"]>>)

\* configurations GET /api/config serves over the life of the page: bot
\* detection on, and an IP blacklist or a blocked country an admin may add
PolledConfigs ==
    { MkConfig(TRUE, <<>>, lists[1], lists[2], <<>>, TRUE, DefaultCriteria) :
        lists \in { << <<>>, <<>> >>, << <<"10.0.0.2">>, <<>> >>, << <<>>, <<"France">> >> } }

\* the configuration a visit before this one left in localStorage
CachedConfig == MkConfig(TRUE, <<>>, <<>>, <<>>, <<>>, TRUE, DefaultCriteria)

\* answers of GET /api/config: none, a configuration, 403 from the origin
\* check, 429 from the rate limiter
ConfigFetches ==
    { NetworkError, [status |-> 403, body |-> Forbidden], [status |-> 429, body |-> RateLimited] }
    \cup { [status |-> 200, body |-> c] : c \in PolledConfigs }

\* the visitor's address and country, which do not change while the page is
\* open (SpecLookup goes through the failures of these two lookups)
PageIpFetches == { [body |-> [ip |-> "10.0.0.2"]] }

PageGeoFetches == { [body |-> [country |-> "France", ip |-> "10.0.0.2"]] }

\* answers of POST /api/bot-detect: none, or a bot
PageBotFetches ==
    { NetworkError,
      [body |-> [score |-> 9, details |-> [k \in DetailKeys |-> TRUE]]] }

\* an async call suspended at an await: who started it, the await it is at,
\* the locals ip and country of evaluateRules ("" before they are assigned),
\* whether its pollConfig was answered 403, and whether the interval timer
\* has fired since it began
Task(by, pc, ip, country) ==
    [by |-> by, pc |-> pc, ip |-> ip, country |-> country,
     denied |-> FALSE, late |-> FALSE]

\* the page has just loaded the script and init() waits for its first poll
InitPage ==
    /\ input = Null
    /\ result = Null
    /\ ServerIdle
    /\ HttpIdle
    /\ sdkVersion \in SdkVersions
    /\ href \in Hrefs
    /\ config = Null
    /\ localStorage \in { Null, CachedConfig }
    /\ isTrafficAllowed = FALSE
    /\ pollInterval = {}
    /\ initAge = 0
    /\ tasks = SetToBag({ Task("init", "poll", "", "") })
    /\ blockedPage = ""
    /\ preloader = FALSE
    /\ safeTimers = {}
    /\ finalTimers = {}
    /\ navigatedTo = ""
    /\ did = NoStep

\* showBlockedPage(code): document.write of the page, setTimeout of the redirect
showBlockedPage(code) ==
    /\ blockedPage' = code
    /\ safeTimers' = safeTimers \cup { RedirectDelay }

\* runCheck after evaluateRules has returned res
RunCheckEnds(res) ==
    IF res.blocked
    THEN /\ showBlockedPage(res.code)
         /\ isTrafficAllowed' = FALSE
         /\ UNCHANGED <<preloader, finalTimers>>
    ELSE IF sdkVersion = "3.3"
    THEN /\ isTrafficAllowed' = TRUE
         /\ UNCHANGED <<blockedPage, safeTimers, preloader, finalTimers>>
    ELSE /\ preloader' = TRUE
         /\ finalTimers' = finalTimers \cup { RedirectDelay }
         /\ UNCHANGED <<blockedPage, safeTimers, isTrafficAllowed>>

\* evaluateRules of task t returns res to runCheck, and runCheck to its caller:
\* init of version 3.3 then calls setInterval
Finish(t, country, res, branch) ==
    /\ tasks' = tasks (-) SetToBag({t})
    /\ RunCheckEnds(res)
    /\ pollInterval' = IF sdkVersion = "3.3" /\ t.by = "init"
                       THEN { CONFIG_POLL_INTERVAL }
                       ELSE pollInterval
    /\ did' = [op |-> "evaluateRules", by |-> t.by, branch |-> branch,
               ip |-> t.ip, country |-> country, denied |-> t.denied, result |-> res]
    /\ initAge' = IF t.by = "init" THEN 0 ELSE initAge
    /\ UNCHANGED <<sdkVersion, href, config, localStorage, navigatedTo>>

\* pollConfig: the answer to GET /api/config arrives; then the caller's code
\* up to the first await of evaluateRules
ConfigResponse ==
    \E t \in BagToSet(tasks), fetched \in ConfigFetches :
        /\ navigatedTo = ""
        /\ t.pc = "poll"
        /\ LET ok == fetched # NetworkError /\ fetched.status = 200
               denied == fetched # NetworkError /\ fetched.status = 403
               \* showBlockedPage reads config.theme: a TypeError when config
               \* is null, caught by the catch of pollConfig like a failed fetch
               thrown == fetched = NetworkError \/ (denied /\ config = Null)
               newConfig == IF ok THEN fetched.body
                            ELSE IF thrown /\ localStorage # Null THEN localStorage
                            ELSE config
               stops == sdkVersion = "3.1" /\ t.by = "init" /\ OnFinalUrl(newConfig)
               checks == /\ newConfig # Null
                         /\ ~(sdkVersion = "3.1" /\ OnFinalUrl(newConfig))
               arms == /\ t.by = "init"
                       /\ IF sdkVersion = "3.1" THEN ~stops ELSE ~checks
           IN  /\ config' = newConfig
               /\ localStorage' = IF ok THEN fetched.body ELSE localStorage
               /\ IF denied /\ ~thrown
                  THEN showBlockedPage("ERR-DOMAIN-BLOCKED")
                  ELSE UNCHANGED <<blockedPage, safeTimers>>
               /\ tasks' = (tasks (-) SetToBag({t})) (+)
                           (IF checks
                            THEN SetToBag({ [t EXCEPT !.pc = "getIP", !.denied = denied] })
                            ELSE EmptyBag)
               /\ pollInterval' = IF arms THEN { CONFIG_POLL_INTERVAL } ELSE pollInterval
               /\ initAge' = IF t.by = "init" /\ ~checks THEN 0 ELSE initAge
               /\ did' = [op |-> "pollConfig", by |-> t.by, fetched |-> fetched,
                          hadConfig |-> (config # Null), checks |-> checks]
        /\ UNCHANGED <<sdkVersion, href, isTrafficAllowed, preloader, finalTimers,
                       navigatedTo, input, result, serverVars, httpVars>>

\* evaluateRules: getIP has answered; checkGeoIP(ip) is called
IpResponse ==
    \E t \in BagToSet(tasks), fetched \in PageIpFetches :
        /\ navigatedTo = ""
        /\ t.pc = "getIP"
        /\ tasks' = (tasks (-) SetToBag({t})) (+)
                    SetToBag({ [t EXCEPT !.pc = "geo", !.ip = getIP(fetched)] })
        /\ did' = [op |-> "getIP"]
        /\ UNCHANGED <<sdkVersion, href, config, localStorage, isTrafficAllowed,
                       pollInterval, initAge, blockedPage, preloader, safeTimers, finalTimers,
                       navigatedTo, input, result, serverVars, httpVars>>

\* evaluateRules: checkGeoIP has answered; the domain, IP and country rules
\* are decided on the configuration now in config, then checkBotDetection is
\* called or the evaluation returns
GeoResponse ==
    \E t \in BagToSet(tasks), fetched \in PageGeoFetches :
        /\ navigatedTo = ""
        /\ t.pc = "geo"
        /\ LET country == checkGeoIP(fetched)
               gate == RulesBeforeBot(config, PageHostname, t.ip, country)
           IN  IF gate # "pass"
               THEN Finish(t, country, Blocked(gate), "rules")
               ELSE IF IsTrue(config, "botDetectionEnabled")
               THEN /\ tasks' = (tasks (-) SetToBag({t})) (+)
                                SetToBag({ [t EXCEPT !.pc = "bot", !.country = country] })
                    /\ did' = [op |-> "checkGeoIP"]
                    /\ UNCHANGED <<sdkVersion, href, config, localStorage, isTrafficAllowed,
                                   pollInterval, initAge, blockedPage, preloader, safeTimers,
                                   finalTimers, navigatedTo>>
               ELSE Finish(t, country, NotBlocked, "rules")
        /\ UNCHANGED <<input, result, serverVars, httpVars>>

\* evaluateRules: checkBotDetection has answered; criteria, triggered[] and
\* getErrorCode read the configuration now in config
BotResponse ==
    \E t \in BagToSet(tasks), fetched \in PageBotFetches :
        /\ navigatedTo = ""
        /\ t.pc = "bot"
        /\ Finish(t, t.country,
                  BotBranch(config, checkBotDetection(fetched), t.country, t.ip), "bot")
        /\ UNCHANGED <<input, result, serverVars, httpVars>>

\* the bag of tasks with every task marked late
Late(bag) ==
    LET Mark(t) == [t EXCEPT !.late = TRUE]
        Unmarked(u) == [u EXCEPT !.late = FALSE]
    IN  [u \in { Mark(t) : t \in BagToSet(bag) } |->
            CopiesIn(u, bag) + CopiesIn(Unmarked(u), bag)]

\* the setInterval callback starts: pollConfig up to its fetch.  The calls
\* still in flight have now lasted into the next period.
TimerFire ==
    /\ navigatedTo = ""
    /\ 0 \in pollInterval
    /\ BagCardinality(tasks) < MaxTasks
    /\ tasks' = Late(tasks) (+) SetToBag({ Task("timer", "poll", "", "") })
    /\ pollInterval' = { CONFIG_POLL_INTERVAL }
    /\ did' = [op |-> "timer"]
    /\ UNCHANGED <<sdkVersion, href, config, localStorage, isTrafficAllowed, initAge,
                   blockedPage, preloader, safeTimers, finalTimers, navigatedTo,
                   input, result, serverVars, httpVars>>

\* the page calls GeoIPControlSDK.runSecurityCheck(), which version 3.3 exposes
RunSecurityCheck ==
    /\ navigatedTo = ""
    /\ sdkVersion = "3.3"
    /\ BagCardinality(tasks) < MaxTasks
    /\ IF config = Null
       THEN /\ isTrafficAllowed' = FALSE
            /\ UNCHANGED tasks
       ELSE /\ tasks' = tasks (+) SetToBag({ Task("manual", "getIP", "", "") })
            /\ UNCHANGED isTrafficAllowed
    /\ did' = [op |-> "runSecurityCheck"]
    /\ UNCHANGED <<sdkVersion, href, config, localStorage, pollInterval, initAge,
                   blockedPage, preloader, safeTimers, finalTimers, navigatedTo,
                   input, result, serverVars, httpVars>>

\* a redirect timeout runs: window.location.href is assigned and the page,
\* with its timers and its pending calls, is gone
Navigate ==
    /\ navigatedTo = ""
    /\ \/ 0 \in safeTimers /\ navigatedTo' = SafeUrl
       \/ 0 \in finalTimers /\ navigatedTo' = config["finalUrl"]
    /\ pollInterval' = {}
    /\ tasks' = EmptyBag
    /\ safeTimers' = {}
    /\ finalTimers' = {}
    /\ initAge' = 0
    /\ did' = [op |-> "navigate"]
    /\ UNCHANGED <<sdkVersion, href, config, localStorage, isTrafficAllowed,
                   blockedPage, preloader, input, result, serverVars, httpVars>>

\* RedirectDelay ms pass without any timer being due
PageTick ==
    /\ navigatedTo = ""
    /\ 0 \notin pollInterval \cup safeTimers \cup finalTimers
    /\ pollInterval' = { ms - RedirectDelay : ms \in pollInterval }
    /\ safeTimers' = { ms - RedirectDelay : ms \in safeTimers }
    /\ finalTimers' = { ms - RedirectDelay : ms \in finalTimers }
    /\ initAge' = IF \A t \in BagToSet(tasks) : t.by # "init" THEN initAge
                  ELSE IF initAge + RedirectDelay >= CONFIG_POLL_INTERVAL
                  THEN CONFIG_POLL_INTERVAL
                  ELSE initAge + RedirectDelay
    /\ did' = NoStep
    /\ UNCHANGED <<sdkVersion, href, config, localStorage, isTrafficAllowed, tasks,
                   blockedPage, preloader, navigatedTo, input, result, serverVars, httpVars>>

NextPage ==
    \/ ConfigResponse
    \/ IpResponse
    \/ GeoResponse
    \/ BotResponse
    \/ TimerFire
    \/ RunSecurityCheck
    \/ Navigate
    \/ PageTick

SpecPage == InitPage /\ [][NextPage]_vars

----------------------------------------------------------------------------
(* The two domain checks applied to one configuration and one host name:    *)
(* isOriginAllowed of the server on the Origin header the page's requests   *)
(* carry, and the domain test of evaluateRules on the configuration the     *)
(* server serves to that page.                                              *)

\* host names of pages that load the SDK: "a", "b.a", "ab", "x.b.a", "c"
GateHostnames ==
    Hostnames \cup { <<"x", ".", "b", ".", "a">>, <<"c">> }

\* the domain settings of the configuration in memory
DomainConfigs ==
    { With(With(ContentA, "allowAllDomains", aad), "allowedDomains", ad) :
        aad \in BOOLEAN, ad \in AllowedDomainLists }
    \cup { Without(Without(ContentA, "allowAllDomains"), "allowedDomains") }

InitGate ==
    /\ input \in { [hostname |-> h] : h \in GateHostnames }
    /\ result = Null
    /\ PageIdle
    /\ appConfig \in DomainConfigs
    /\ file = Null
    /\ env = ""
    /\ now = 0
    /\ listening = TRUE
    /\ loads = 0
    /\ pending = EmptyBag
    /\ last = NoStep
    /\ lastWrite = Null
    /\ HttpIdle

\* the server's check of a request from the page: Origin is https://<hostname>
ServerOriginCheck ==
    /\ exchange = Null
    /\ LET origin == UrlOrigin(input.hostname, "")
       IN  exchange' = [origin |-> origin, allowed |-> isOriginAllowed(appConfig, origin)]
    /\ UNCHANGED <<version, hits, sdkVars, serverVars>>

\* the SDK's evaluation on that page, with the configuration GET /api/config
\* serves and a visitor no other rule stops
SdkDomainCheck ==
    /\ result = Null
    /\ result' = evaluateRules(PublicProjection(appConfig), input.hostname,
                               "10.0.0.2", "France", BotFallback)
    /\ UNCHANGED <<input, pageVars, serverVars, httpVars>>

NextGate ==
    \/ ServerOriginCheck
    \/ SdkDomainCheck

SpecGate == InitGate /\ [][NextGate]_vars

----------------------------------------------------------------------------
(* Properties of the rule evaluator, checked under SpecEval.  The claims'  *)
(* conditions are written out from their wording, on the raw input.        *)

\* the list under key k, [] when the key is absent
ListOf(cfg, k) == IF Has(cfg, k) THEN cfg[k] ELSE <<>>

\* x is a member of the list under key k
Member(cfg, k, x) == \E i \in 1..Len(ListOf(cfg, k)) : ListOf(cfg, k)[i] = x

\* allowAllDomains is false (or unset), allowedDomains is non-empty and no
\* entry of it is a substring of the host name
DomainRuleMatches(cfg, hostname) ==
    /\ ~(Has(cfg, "allowAllDomains") /\ cfg["allowAllDomains"])
    /\ ListOf(cfg, "allowedDomains") # <<>>
    /\ \A i \in 1..Len(ListOf(cfg, "allowedDomains")) :
           ~StrIncludes(hostname, ListOf(cfg, "allowedDomains")[i])

IpRuleMatches(cfg, ip) == Member(cfg, "ipBlacklist", ip)

CountryBlockRuleMatches(cfg, country) == Member(cfg, "blockedCountries", country)

CountryAllowRuleMatches(cfg, country) ==
    /\ ListOf(cfg, "allowedCountries") # <<>>
    /\ ~Member(cfg, "allowedCountries", country)

NoRuleBeforeBotMatches(cfg, hostname, ip, country) ==
    /\ ~DomainRuleMatches(cfg, hostname)
    /\ ~IpRuleMatches(cfg, ip)
    /\ ~CountryBlockRuleMatches(cfg, country)
    /\ ~CountryAllowRuleMatches(cfg, country)

\* criterion `block` is enabled in the configuration and the bot result sets `flag`
FlagFires(cfg, bot, block, flag) ==
    /\ Has(cfg, "blockingCriteria") /\ Has(cfg["blockingCriteria"], block)
    /\ cfg["blockingCriteria"][block]
    /\ Has(bot, "details") /\ Has(bot["details"], flag)
    /\ bot["details"][flag]

AnyFlagFires(cfg, bot) ==
    \/ FlagFires(cfg, bot, "blockBotUA", "isBotUserAgent")
    \/ FlagFires(cfg, bot, "blockScraperISP", "isScraperISP")
    \/ FlagFires(cfg, bot, "blockIPAbuser", "isIPAbuser")
    \/ FlagFires(cfg, bot, "blockSuspiciousTraffic", "isSuspiciousTraffic")
    \/ FlagFires(cfg, bot, "blockDataCenterASN", "isDataCenterASN")

MinScoreConfigured(cfg) ==
    Has(cfg, "blockingCriteria") /\ Has(cfg["blockingCriteria"], "minScore")

\* the threshold of the score criterion: minScore, 0.7 when it is absent
RefMinScore(cfg) ==
    IF MinScoreConfigured(cfg) THEN cfg["blockingCriteria"]["minScore"] ELSE 7

ScoreFires(cfg, bot) == Has(bot, "score") /\ bot["score"] >= RefMinScore(cfg)

\* the code of the first criterion that fired, in the fixed secondary order
RefBotCode(cfg, bot) ==
    IF FlagFires(cfg, bot, "blockBotUA", "isBotUserAgent") THEN "ERR-UA-BOT"
    ELSE IF FlagFires(cfg, bot, "blockScraperISP", "isScraperISP") THEN "ERR-ISP-SCRAPER"
    ELSE IF FlagFires(cfg, bot, "blockIPAbuser", "isIPAbuser") THEN "ERR-IP-ABUSER"
    ELSE IF FlagFires(cfg, bot, "blockSuspiciousTraffic", "isSuspiciousTraffic")
         THEN "ERR-TRAFFIC-SUSPICIOUS"
    ELSE IF FlagFires(cfg, bot, "blockDataCenterASN", "isDataCenterASN")
         THEN "ERR-ASN-DATACENTER"
    ELSE IF ScoreFires(cfg, bot) THEN "ERR-BOT-HIGH"
    ELSE "ERR-UNKNOWN"

\* the decision table of the rule evaluator: the first rule that matches decides
RefDecision(cfg, hostname, ip, country, bot) ==
    IF DomainRuleMatches(cfg, hostname) THEN Blocked("ERR-DOMAIN-BLOCKED")
    ELSE IF IpRuleMatches(cfg, ip) THEN Blocked("ERR-IP-BLACKLIST")
    ELSE IF CountryBlockRuleMatches(cfg, country) THEN Blocked("ERR-COUNTRY-BLOCK")
    ELSE IF CountryAllowRuleMatches(cfg, country) THEN Blocked("ERR-COUNTRY-BLOCK")
    ELSE IF /\ Has(cfg, "botDetectionEnabled") /\ cfg["botDetectionEnabled"]
            /\ (AnyFlagFires(cfg, bot) \/ ScoreFires(cfg, bot))
         THEN Blocked(RefBotCode(cfg, bot))
    ELSE NotBlocked

BotDetectionOn(cfg) == Has(cfg, "botDetectionEnabled") /\ cfg["botDetectionEnabled"]

\* C2 (as claimed): for every configuration, request and bot result,
\* evaluateRules returns exactly the outcome of the decision table.
C2_MatchesDecisionTable ==
    (Evaluated /\ input.config # Null) =>
        result = RefDecision(input.config, input.hostname, input.ip,
                             input.country, input.bot)

\* C3: when allowAllDomains is false and allowedDomains is non-empty with no
\* entry a substring of the host name, the outcome is blocked with
\* ERR-DOMAIN-BLOCKED, whatever the IP, the country and the bot result are.
C3_DomainGateFirst ==
    (/\ Evaluated
     /\ input.config # Null
     /\ Has(input.config, "allowAllDomains") /\ ~input.config["allowAllDomains"]
     /\ DomainRuleMatches(input.config, input.hostname))
    => result = Blocked("ERR-DOMAIN-BLOCKED")

\* C3's case: the domain rule matches a request whose IP is blacklisted, whose
\* country is blocked and whose bot result is a high score
C3_Witness ==
    /\ Evaluated
    /\ input.config # Null
    /\ Has(input.config, "allowAllDomains") /\ ~input.config["allowAllDomains"]
    /\ DomainRuleMatches(input.config, input.hostname)
    /\ IpRuleMatches(input.config, input.ip)
    /\ CountryBlockRuleMatches(input.config, input.country)
    /\ BotDetectionOn(input.config)
    /\ ScoreFires(input.config, input.bot)
    /\ result = Blocked("ERR-DOMAIN-BLOCKED")

\* C4 (as claimed): for every configuration and every request whose IP is in
\* ipBlacklist, the outcome is blocked with ERR-IP-BLACKLIST.
C4_Original ==
    (Evaluated /\ input.config # Null /\ IpRuleMatches(input.config, input.ip))
    => result = Blocked("ERR-IP-BLACKLIST")

\* C4 (amended): for every configuration whose domain rule does not match the
\* host name and every request whose IP is in ipBlacklist, the outcome is
\* blocked with ERR-IP-BLACKLIST, regardless of the country and the bot result.
C4_IpBlacklistAfterDomain ==
    (/\ Evaluated
     /\ input.config # Null
     /\ ~DomainRuleMatches(input.config, input.hostname)
     /\ IpRuleMatches(input.config, input.ip))
    => result = Blocked("ERR-IP-BLACKLIST")

\* C4's case: a blacklisted IP from a blocked country with a high bot score,
\* on a host name the domain rule lets through
C4_Witness ==
    /\ Evaluated
    /\ input.config # Null
    /\ ListOf(input.config, "allowedDomains") # <<>>
    /\ ~DomainRuleMatches(input.config, input.hostname)
    /\ IpRuleMatches(input.config, input.ip)
    /\ CountryBlockRuleMatches(input.config, input.country)
    /\ BotDetectionOn(input.config)
    /\ ScoreFires(input.config, input.bot)
    /\ result = Blocked("ERR-IP-BLACKLIST")

\* C5 (as claimed): for every request whose country is in blockedCountries, or
\* is not in a non-empty allowedCountries, the outcome is ERR-COUNTRY-BLOCK.
C5_Original ==
    (/\ Evaluated
     /\ input.config # Null
     /\ \/ CountryBlockRuleMatches(input.config, input.country)
        \/ CountryAllowRuleMatches(input.config, input.country))
    => result = Blocked("ERR-COUNTRY-BLOCK")

\* C5 (amended): when neither the domain rule nor the IP blacklist matches, a
\* request whose country is in blockedCountries, or is not in a non-empty
\* allowedCountries, is blocked with ERR-COUNTRY-BLOCK.
C5_CountryAfterDomainAndIp ==
    (/\ Evaluated
     /\ input.config # Null
     /\ ~DomainRuleMatches(input.config, input.hostname)
     /\ ~IpRuleMatches(input.config, input.ip)
     /\ \/ CountryBlockRuleMatches(input.config, input.country)
        \/ CountryAllowRuleMatches(input.config, input.country))
    => result = Blocked("ERR-COUNTRY-BLOCK")

\* C5's case: a country that is not blocked but is missing from a non-empty
\* allow-list, with nothing earlier matching
C5_Witness ==
    /\ Evaluated
    /\ input.config # Null
    /\ ~DomainRuleMatches(input.config, input.hostname)
    /\ ~IpRuleMatches(input.config, input.ip)
    /\ ~CountryBlockRuleMatches(input.config, input.country)
    /\ CountryAllowRuleMatches(input.config, input.country)
    /\ result = Blocked("ERR-COUNTRY-BLOCK")

\* C6 (as claimed): with bot detection enabled, no domain/IP/country rule
\* matching and no enabled flag criterion firing, for every configured minScore
\* and every score >= minScore the outcome is blocked with ERR-BOT-HIGH.
C6_HighScoreBlocks ==
    (/\ Evaluated
     /\ input.config # Null
     /\ BotDetectionOn(input.config)
     /\ NoRuleBeforeBotMatches(input.config, input.hostname, input.ip, input.country)
     /\ ~AnyFlagFires(input.config, input.bot)
     /\ MinScoreConfigured(input.config)
     /\ Has(input.bot, "score")
     /\ input.bot["score"] >= input.config["blockingCriteria"]["minScore"])
    => result = Blocked("ERR-BOT-HIGH")

\* C7 (as claimed): whenever the bot-detection branch blocks, the reported code
\* is that of the first criterion that fired in the order UA-bot, scraper-ISP,
\* IP-abuser, suspicious-traffic, data-center-ASN, high-score.
C7_FirstFiredCriterion ==
    (/\ Evaluated
     /\ input.config # Null
     /\ BotDetectionOn(input.config)
     /\ NoRuleBeforeBotMatches(input.config, input.hostname, input.ip, input.country)
     /\ result.blocked)
    => /\ AnyFlagFires(input.config, input.bot) \/ ScoreFires(input.config, input.bot)
       /\ result = Blocked(RefBotCode(input.config, input.bot))

\* C8 (as claimed): when minScore is absent the score criterion uses 0.7: with
\* bot detection enabled, nothing earlier matching and no flag criterion
\* firing, a score >= 0.7 is blocked with ERR-BOT-HIGH and a lower one is not
\* blocked.
C8_AbsentMinScoreDefaults ==
    (/\ Evaluated
     /\ input.config # Null
     /\ BotDetectionOn(input.config)
     /\ NoRuleBeforeBotMatches(input.config, input.hostname, input.ip, input.country)
     /\ ~AnyFlagFires(input.config, input.bot)
     /\ ~MinScoreConfigured(input.config)
     /\ Has(input.bot, "score"))
    => IF input.bot["score"] >= 7
       THEN result = Blocked("ERR-BOT-HIGH")
       ELSE result = NotBlocked

----------------------------------------------------------------------------
(* Claims about the server *)

\* the ten keys the public endpoint is said to return
TenPublicKeys ==
    { "botDetectionEnabled", "blockingCriteria", "allowedCountries",
      "blockedCountries", "ipBlacklist", "finalUrl", "theme", "allowedDomains",
      "allowAllDomains", "lastUpdated" }

\* the step just taken answered GET /api/config
PublicConfigServed == last.op = "GET /api/config"

\* the step just taken was an authorized POST /api/admin/config
AdminWriteStep == last.op = "POST /api/admin/config" /\ Has(last, "req")

\* the step just taken completed a loadConfig
ConfigLoadStep == last.op = "loadConfig"

\* the passwords POST /api/admin/login would accept in this state
AcceptedPasswords ==
    { p \in { "cyberpunk2024", "env-secret", "pw-new", "pw-old", "" } :
        appConfig # Null /\ LoginOk([password |-> p], appConfig) }

\* ADMIN_PASSWORD from the environment, or the fallback literal
EnvOrFallbackPassword == IF env = "" THEN "cyberpunk2024" ELSE env

\* C1: every response of the public GET /api/config carries only keys among
\* the ten allow-listed ones and never adminPassword, whatever keys the
\* configuration in memory has.
C1_PublicConfigAllowList ==
    PublicConfigServed =>
        /\ DOMAIN last.res \subseteq TenPublicKeys
        /\ "adminPassword" \notin DOMAIN last.res

\* C1 witness: the public endpoint answered with all ten keys while the
\* configuration in memory, installed by an admin write, also held
\* adminPassword and a key no code knows.
C1_Witness ==
    /\ PublicConfigServed
    /\ DOMAIN last.res = TenPublicKeys
    /\ Has(appConfig, "internalNote")
    /\ Has(appConfig, "adminPassword")

\* C9 as stated: after a load the login accepts exactly the environment
\* password (or the fallback); after a write whose body has an adminPassword
\* key it accepts exactly that value; after a write whose body has none it
\* accepts what it accepted before the write.
C9_Original ==
    [][ /\ ConfigLoadStep' => AcceptedPasswords' = { EnvOrFallbackPassword }
        /\ AdminWriteStep' =>
              IF Has(last'.req, "adminPassword")
              THEN AcceptedPasswords' = { last'.req["adminPassword"] }
              ELSE AcceptedPasswords' = AcceptedPasswords ]_vars

\* C9 amended: after a load the login accepts exactly the environment
\* password (or the fallback); after a write whose body has a non-empty
\* adminPassword it accepts exactly that value; after a write whose body has
\* none, or an empty one, it accepts what it accepted before the write.
C9_AcceptedPassword ==
    [][ /\ ConfigLoadStep' => AcceptedPasswords' = { EnvOrFallbackPassword }
        /\ AdminWriteStep' =>
              IF Has(last'.req, "adminPassword") /\ last'.req["adminPassword"] # ""
              THEN AcceptedPasswords' = { last'.req["adminPassword"] }
              ELSE AcceptedPasswords' = AcceptedPasswords ]_vars

\* C9 witness: a write without adminPassword has just been applied and the
\* login still accepts the password an earlier write installed, which is
\* neither the environment's nor the fallback.
C9_Witness ==
    /\ AdminWriteStep
    /\ ~Has(last.req, "adminPassword")
    /\ AcceptedPasswords = { "pw-new" }
    /\ EnvOrFallbackPassword # "pw-new"

\* C10: an authorized write whose body equals the body of the write that
\* installed the configuration now in memory leaves that configuration as it
\* was in every field except lastUpdated.
C10_IdenticalWritesIdempotent ==
    [][ (AdminWriteStep' /\ last'.repeat) =>
            Without(appConfig', "lastUpdated") = Without(appConfig, "lastUpdated") ]_vars

\* C10 witness: the same body, one that carries a list, has just been written
\* a second time, at a later time than the clock's start.
C10_Witness ==
    /\ AdminWriteStep
    /\ last.repeat
    /\ Has(last.req, "ipBlacklist")
    /\ last.req["ipBlacklist"] # <<>>
    /\ appConfig["lastUpdated"] > 0

\* the fields of a configuration other than the two the server sets itself
ContentOf(cfg) == Without(Without(cfg, "adminPassword"), "lastUpdated")

\* the header's value starts with the word Bearer and a space
HeaderStartsWithBearer(h) == Len(h) >= 2 /\ h[1] = "Bearer" /\ h[2] = " "

\* the step just taken answered with the given status
AnsweredWith(status) == Has(last, "status") /\ last.status = status

\* the step just taken answered GET /api/admin/config with the configuration
AdminConfigServed == last.op = "GET /api/admin/config" /\ AnsweredWith(200)

C13_RejectionsChangeNothing ==
    [][ /\ ( /\ last'.op = "POST /api/admin/login"
             /\ ~( /\ Has(last'.req, "password")
                   /\ last'.req["password"] = appConfig["adminPassword"] ) )
           => /\ AnsweredWith(401)'
              /\ last'.res = [error |-> "ERR-INVALID-PASS"]
        /\ ( /\ last'.op \in { "GET /api/admin/config", "POST /api/admin/config" }
             /\ ~HeaderStartsWithBearer(last'.auth) )
           => /\ AnsweredWith(401)'
              /\ last'.res = [error |-> "ERR-NO-AUTH"]
        /\ AnsweredWith(401)'
           => /\ appConfig' = appConfig
              /\ file' = file
              /\ DOMAIN last'.res = { "error" }
      ]_vars

\* C13 witness: a POST on /api/admin/config that carried an Authorization
\* header of another scheme has just been answered 401 while a file exists.
C13_Witness ==
    /\ last.op = "POST /api/admin/config"
    /\ AnsweredWith(401)
    /\ last.auth # <<>>
    /\ file # Null

\* C14: with no login ever made, a GET on /api/admin/config whose header
\* starts with "Bearer " is answered with the whole configuration,
\* adminPassword included, and a POST with such a header installs its body,
\* whatever follows the word Bearer.
C14_AnyBearerAccepted ==
    [][ /\ ( /\ last'.op = "GET /api/admin/config"
             /\ HeaderStartsWithBearer(last'.auth) )
           => /\ AnsweredWith(200)'
              /\ last'.res = appConfig'
              /\ Has(last'.res, "adminPassword")
        /\ ( /\ last'.op = "POST /api/admin/config"
             /\ HeaderStartsWithBearer(last'.auth) )
           => /\ AdminWriteStep'
              /\ ContentOf(appConfig') = ContentOf(last'.req)
      ]_vars

\* C14 witness: a header made of "Bearer " and no token at all has just read
\* the configuration, password included.
C14_Witness ==
    /\ AdminConfigServed
    /\ last.auth = <<"Bearer", " ">>
    /\ Has(last.res, "adminPassword")

C16_PersistenceFailureSwallowed ==
    (last.op = "writeFile" /\ Has(last, "status")) =>
        /\ last.status = 200
        /\ DOMAIN last.res = { "success", "lastUpdated" }

\* the contents a whole configuration record can have: those of the request
\* bodies, of the default and of the file found at start
KnownContents ==
    { ContentOf(b) : b \in AdminBodies } \cup { ContentOf(DefaultConfig(0)), ContentOf(OldFile) }

\* C18: every configuration returned by GET /api/admin/config is one whole
\* record: the content of one body, default or file, with a non-empty
\* adminPassword and a lastUpdated the server has set; every response of
\* GET /api/config is the public part of such a record.
C18_ReadsSeeWholeRecords ==
    /\ AdminConfigServed =>
          /\ ContentOf(last.res) \in KnownContents
          /\ Has(last.res, "adminPassword") /\ last.res["adminPassword"] # ""
          /\ Has(last.res, "lastUpdated") /\ last.res["lastUpdated"] \in 0..now
    /\ PublicConfigServed =>
          /\ \E c \in KnownContents :
                 Without(last.res, "lastUpdated") = [k \in TenPublicKeys \cap DOMAIN c |-> c[k]]
          /\ Has(last.res, "lastUpdated") /\ last.res["lastUpdated"] \in 0..now

\* C18 witness: an admin read has just returned the configuration of a write
\* whose file write is still in flight.
C18_Witness ==
    /\ AdminConfigServed
    /\ \E w \in BagToSet(pending) : w.by = "admin" /\ w.content = last.res

\* C19: once a configuration is in memory, a step that puts another one
\* there is an authorized POST /api/admin/config.
C19_OnlyAdminWriteChangesConfig ==
    [][ (appConfig # Null /\ appConfig' # Null /\ appConfig' # appConfig)
            => AdminWriteStep' ]_vars

\* a lookup failed: the fetch rejected, or the answer is an error body
\* without the field asked for
LookupFailed(fetched, field) == fetched = NetworkError \/ ~Has(fetched.body, field)

\* the bot result the failure semantics name: score 0 and every flag false
NoBotResult == [score |-> 0, details |-> [k \in DetailKeys |-> FALSE]]

\* C17: when at least one of the three lookups fails, evaluateRules still
\* returns an outcome, and it is the decision table's outcome for the values
\* of the lookups that succeeded and '127.0.0.1', 'Unknown' and the no-bot
\* result for those that failed.
C17_LookupFailuresUseDefaults ==
    (/\ Evaluated
     /\ \/ LookupFailed(input.ipFetch, "ip")
        \/ LookupFailed(input.geoFetch, "country")
        \/ LookupFailed(input.botFetch, "score"))
    => result = RefDecision(
           input.config, input.hostname,
           IF LookupFailed(input.ipFetch, "ip") THEN "127.0.0.1"
                                                ELSE input.ipFetch.body["ip"],
           IF LookupFailed(input.geoFetch, "country") THEN "Unknown"
                                                      ELSE input.geoFetch.body["country"],
           IF LookupFailed(input.botFetch, "score") THEN NoBotResult
                                                    ELSE input.botFetch.body)

\* the request just received asked for /sdk.js or for a path under /api
GatedRequest ==
    /\ exchange # Null
    /\ \/ exchange.req.path = <<"/", "sdk.js">>
       \/ (Len(exchange.req.path) >= 2 /\ exchange.req.path[1] = "/"
           /\ exchange.req.path[2] = "api")

\* the request just received asked for a path under /api/admin
AdminRequest ==
    /\ exchange # Null
    /\ Len(exchange.req.path) >= 4
    /\ SubSeq(exchange.req.path, 1, 4) = <<"/", "api", "/", "admin">>

\* host h is domain d or a subdomain of it
SameOrSubdomain(h, d) ==
    \/ h = d
    \/ (Len(h) > Len(d) + 1 /\ SubSeq(h, Len(h) - Len(d), Len(h)) = <<".">> \o d)

\* the origin rule as the policy words it
OriginPermitted(cfg, origin) ==
    \/ origin = NoOrigin
    \/ (Has(cfg, "allowAllDomains") /\ cfg["allowAllDomains"])
    \/ /\ origin # MalformedOrigin
       /\ Has(cfg, "allowedDomains")
       /\ \E i \in 1..Len(cfg["allowedDomains"]) :
              SameOrSubdomain(LowerCase(origin.host), cfg["allowedDomains"][i])

\* C12: in every server version, a request to /sdk.js or to a path under
\* /api, admin paths included, whose origin the rule does not permit is
\* answered 403 ERR-DOMAIN-BLOCKED and reaches no route; one whose origin is
\* permitted is not answered 403.
C12_OriginGate ==
    GatedRequest =>
        IF OriginPermitted(appConfig, exchange.req.origin)
        THEN exchange.answer # [status |-> 403, error |-> "ERR-DOMAIN-BLOCKED"]
        ELSE exchange.answer = [status |-> 403, error |-> "ERR-DOMAIN-BLOCKED"]

\* C20: in the version whose limiter has the skip rule, no request under
\* /api/admin is answered ERR-RATE-LIMIT, and a request to another /api path
\* that is let through by the origin check as the 101st of the window is.
C20_AdminExemptFromRateLimit ==
    (exchange # Null /\ version = 2) =>
        /\ AdminRequest => exchange.answer # [status |-> 429, error |-> "ERR-RATE-LIMIT"]
        /\ (GatedRequest /\ ~AdminRequest /\ hits = 101
            /\ exchange.req.path # <<"/", "sdk.js">>
            /\ exchange.req.method = "GET"
            /\ OriginPermitted(appConfig, exchange.req.origin))
           => exchange.answer = [status |-> 429, error |-> "ERR-RATE-LIMIT"]

----------------------------------------------------------------------------
(* Properties of the SDK on a page, checked under SpecPage *)

\* an evaluation has just returned from its bot-detection branch: it had
\* passed its own domain, IP and country tests before it awaited the detector
BotBranchReturned == did.op = "evaluateRules" /\ did.branch = "bot"

\* the configuration now in config has a blacklist or country rule that
\* matches the facts of the evaluation that just returned
ListRuleMatchesNow ==
    \/ IpRuleMatches(config, did.ip)
    \/ CountryBlockRuleMatches(config, did.country)
    \/ CountryAllowRuleMatches(config, did.country)

\* C21: an evaluation that blocks from its bot-detection branch takes its
\* code from the blacklist and country rules of the configuration that is in
\* the shared variable when the detector has answered: ERR-IP-BLACKLIST when
\* that configuration blacklists the address, otherwise ERR-COUNTRY-BLOCK
\* when it blocks or does not allow the country, and a bot code only when
\* neither rule matches.
C21_BotBranchRechecksSharedConfig ==
    (BotBranchReturned /\ did.result.blocked) =>
        /\ did.result.code = "ERR-IP-BLACKLIST" <=> IpRuleMatches(config, did.ip)
        /\ did.result.code = "ERR-COUNTRY-BLOCK" <=>
               (ListRuleMatchesNow /\ ~IpRuleMatches(config, did.ip))

\* an evaluation that had passed its own tests returns ERR-IP-BLACKLIST or
\* ERR-COUNTRY-BLOCK from the bot-detection branch
C21_Witness ==
    /\ BotBranchReturned
    /\ did.result.blocked
    /\ did.result.code \in { "ERR-IP-BLACKLIST", "ERR-COUNTRY-BLOCK" }

\* the evaluateRules runs in flight: the calls suspended at one of its awaits
EvaluationsInFlight ==
    LET running == { t \in BagToSet(tasks) : t.pc \in { "getIP", "geo", "bot" } }
    IN  BagCardinality([t \in running |-> CopiesIn(t, tasks)])

\* no poll-and-evaluate cycle has lasted a timer period: the cycle of init
\* is younger than CONFIG_POLL_INTERVAL, and no cycle of init or of the timer
\* was still in flight when the timer fired after it had begun
CyclesWithinPeriod ==
    /\ initAge < CONFIG_POLL_INTERVAL
    /\ \A t \in BagToSet(tasks) : t.by \in { "init", "timer" } => ~t.late

\* C22: while every poll-and-evaluate cycle has finished in less than the
\* timer period, at most one evaluateRules run, whether started by init, by
\* the timer or by runSecurityCheck, is in flight on the page.
C22_NoOverlappingEvaluations ==
    CyclesWithinPeriod => EvaluationsInFlight <= 1

\* the blocked page is on display, which armed the redirect to the safe page
BlockedPageShown == blockedPage # ""

\* a redirect to config.finalUrl is armed
FinalRedirectArmed == finalTimers # {}

\* C23: in the forwarding SDK, at no moment of the page's life has the
\* blocked page been shown while a redirect to finalUrl is armed.
C23_OneKindOfOutcome ==
    sdkVersion = "3.1" => ~(BlockedPageShown /\ FinalRedirectArmed)

\* a poll of the configuration has just been answered 403
PollDenied ==
    did.op = "pollConfig" /\ did.fetched # NetworkError /\ did.fetched.status = 403

\* a cycle whose poll was answered 403 has just ended: at the poll when no
\* check followed it, else at the return of its evaluation
DeniedCycleEnded ==
    \/ PollDenied /\ ~did.checks
    \/ did.op = "evaluateRules" /\ did.denied

\* C24: after a poll answered 403 the blocked page shows ERR-DOMAIN-BLOCKED
\* and the redirect to the safe page is armed, whether or not a configuration
\* was loaded or cached, and when that cycle ends isTrafficAllowed() is not
\* true.
C24_DeniedPollBlocks ==
    /\ PollDenied =>
           (blockedPage = "ERR-DOMAIN-BLOCKED" /\ RedirectDelay \in safeTimers)
    /\ DeniedCycleEnded => ~isTrafficAllowed

----------------------------------------------------------------------------
(* The two domain checks compared, checked under SpecGate *)

BothChecksDone == result # Null /\ exchange # Null

\* the SDK's domain gate let the host name through
SdkAdmits == ~(result.blocked /\ result.code = "ERR-DOMAIN-BLOCKED")

\* C25: for one configuration and one host name, the server's origin check
\* and the SDK's domain gate decide alike.
C25_DomainChecksAgree ==
    BothChecksDone => (exchange.allowed <=> SdkAdmits)

----------------------------------------------------------------------------
(* Persistence, checked under SpecNoWriteFail *)

\* the server is up, has a configuration, and no loadConfig or fs.writeFile
\* is in flight
Quiescent ==
    /\ listening
    /\ appConfig # Null
    /\ loads = 0
    /\ pending = EmptyBag

\* C26: when no write fails, once every admin write and every load has
\* completed, config.json exists and holds the configuration in memory in
\* every field except adminPassword.
C26_FileMatchesMemory ==
    Quiescent =>
        /\ file # Null
        /\ Without(file, "adminPassword") = Without(appConfig, "adminPassword")

============================================================================
